---- MODULE Spec2Model ----
(***************************************************************************)
(* Model of the cache-aside layer of the hugoproxy geo service:            *)
(*   - InMemoryCache   (internal/infrastructure/cache): a TTL keyed store  *)
(*     with lazy expiration on Get and a periodic cleanup goroutine;       *)
(*   - GeoServiceProxy (internal/infrastructure/geo_proxy): the decorator  *)
(*     that answers AddressSearch / GeoCode from the store and falls back  *)
(*     to the upstream geo service on a miss.                              *)
(*                                                                         *)
(* Time is a discrete clock `now`; a reading of time.Now() is the current  *)
(* value of the clock, and two consecutive readings may be equal.          *)
(* Strings are TLA+ strings, concatenated with \o as Go's + does.          *)
(*                                                                         *)
(* The specifications share the state:                                     *)
(*   Spec       the program as wired in setupRouter: proxy calls over the  *)
(*              store, the cleanup goroutine and the clock;                *)
(*   SpecStore  the store alone under an arbitrary client issuing Get,     *)
(*              Set and Delete, with the cleanup goroutine and the clock;  *)
(*   SpecKey    the key derivation of the proxy applied to two queries;    *)
(*   SpecStop   SpecStore with an owner that gives the store up;           *)
(*   SpecLock   the store at the level of its sync.RWMutex, with client    *)
(*              goroutines and the cleanup goroutine;                      *)
(*   SpecFair   SpecLock under the fairness of the Go scheduler and of     *)
(*              sync.RWMutex;                                              *)
(*   SpecSweep  SpecFair with a ticker that keeps firing;                  *)
(*   SpecProxyLock  SpecLock with a proxy caller among the goroutines;     *)
(*   SpecConc   Spec with two concurrent proxy callers;                    *)
(*   SpecSearch Spec with searches that differ in case or white space;     *)
(*   SpecProvenance  Spec with upstream answers that name their query;     *)
(*   SpecAlias  Spec with the cached slices as pointers into a heap;       *)
(*   SpecAuth   RegisterHandler over the in-memory userStore.              *)
(***************************************************************************)
EXTENDS Integers, Sequences, FiniteSets, TLC

VARIABLES
    items,    \* InMemoryCache.items: map key -> cacheItem
    now,      \* the wall clock read by time.Now()
    ttl,      \* GeoServiceProxy.ttl
    call,     \* per caller goroutine: position and locals of its proxy call
    writes,   \* history: per key, the arguments and instant of the last Set
    ret,      \* the event that just happened, with the values it returned
    kq,       \* SpecKey: the two queries whose keys are derived
    kk,       \* SpecKey: the keys derived for kq
    lazy,     \* the map of a twin store that gets the same Set and Delete
              \* calls and on which no cleanup pass ever runs
    stopped,  \* -1: the owner still uses the store; n >= 0: the owner has
              \* given the store up and n cleanup passes have run since
    mu,       \* SpecLock: InMemoryCache.mu, the sync.RWMutex
    gor,      \* SpecLock: per goroutine, its position in a store call
    heap,     \* SpecAlias: the service.Address structs, by pointer
    held,     \* SpecAlias: per caller, the slice it got from the store
    userStore,\* SpecAuth: the userStore of the auth handlers
    reg       \* SpecAuth: per request goroutine, its RegisterHandler call

vars ==
    <<items, now, ttl, call, writes, ret, kq, kk, lazy, stopped, mu, gor,
      heap, held, userStore, reg>>

-----------------------------------------------------------------------------
(* Bounds of the model *)

MaxTime == 3        \* the clock runs over 0..MaxTime
MaxTtl == 2         \* ttl arguments range over -MaxTtl..MaxTtl
MaxStrLen == 1      \* length of the query strings of SpecKey
MaxSweeps == 2      \* cleanup passes counted after the store is given up
MaxAllocs == 2      \* Address structs the upstream service builds

Times == 0..MaxTime
Ttls == (0 - MaxTtl)..MaxTtl

-----------------------------------------------------------------------------
(* Values *)

\* the untyped nil interface{} that Get returns on a miss
Nil == [tag |-> "nil"]

\* a []*service.Address; the nil slice is the list without elements
Addresses(list) == [tag |-> "addrs", list |-> list]
NilAddresses == Addresses(<<>>)

\* a value of another dynamic type (the store takes interface{})
StringValue(s) == [tag |-> "string", s |-> s]

\* results the upstream service answers with (nil slice: nothing found)
Results == {NilAddresses, Addresses(<<"Moscow">>)}

\* errors the upstream service answers with; NoErr is the nil error
NoErr == "nil"
Errs == {"service error", "timeout"}

\* values the client of SpecStore writes
StoreValues == {StringValue("testValue"), StringValue("other")}

-----------------------------------------------------------------------------
(* Queries and key derivation *)

Chars == {"a", "A", ":"}

RECURSIVE StrsOfLen(_)
StrsOfLen(n) ==
    IF n = 0 THEN {""}
    ELSE {s \o c : s \in StrsOfLen(n - 1), c \in Chars}

Strs == UNION {StrsOfLen(n) : n \in 0..MaxStrLen}

SearchQuery(input) == [method |-> "AddressSearch", a |-> input, b |-> ""]
GeoCodeQuery(lat, lng) == [method |-> "GeoCode", a |-> lat, b |-> lng]
NoQuery == [method |-> "none", a |-> "", b |-> ""]

AllQueries ==
    {SearchQuery(s) : s \in Strs} \cup
    {GeoCodeQuery(x, y) : x \in Strs, y \in Strs}

\* SearchKey over the query trimmed and in lower case
SearchKeyNormalized(input) ==
    "search:" \o (IF input \in {"Query", "query "} THEN "query" ELSE input)

\* cacheKey of GeoServiceProxy.AddressSearch
SearchKey(input) == "search:" \o input

\* cacheKey of GeoServiceProxy.GeoCode
GeoCodeKey(lat, lng) == "geocode:" \o lat \o ":" \o lng

CacheKey(q) ==
    IF q.method = "AddressSearch" THEN SearchKey(q.a)
    ELSE GeoCodeKey(q.a, q.b)

\* the queries the callers of Spec issue: one search and two reverse
\* lookups whose coordinate strings contain the delimiter
Requests ==
    {SearchQuery("a"), GeoCodeQuery(":", ""), GeoCodeQuery("", ":")}

\* the caller goroutines of Spec: proxy calls are issued one after another
Callers == {"caller"}

\* the keys the client of SpecStore uses
StoreKeys == {"testKey", "geocode:55.7558:37.6173"}

-----------------------------------------------------------------------------
(* InMemoryCache *)

\* time.Time.After
After(t, u) == t > u

\* GetResult with the comparison of the expiration check turned around
GetResultInverted(its, t, key) ==
    IF key \notin DOMAIN its \/ ~After(t, its[key].expiration)
    THEN [found |-> FALSE, value |-> Nil]
    ELSE [found |-> TRUE, value |-> its[key].value]

\* GetResult without the expiration check on read
GetResultNoExpiry(its, t, key) ==
    IF key \notin DOMAIN its
    THEN [value |-> Nil, found |-> FALSE]
    ELSE [value |-> its[key].value, found |-> TRUE]

\* the (value, found) pair InMemoryCache.Get returns at instant t
GetResult(its, t, key) ==
    IF key \notin DOMAIN its \/ After(t, its[key].expiration)
    THEN [value |-> Nil, found |-> FALSE]
    ELSE [value |-> its[key].value, found |-> TRUE]

\* SetItems of a store with room for one entry: writing a key evicts the
\* other entries
SetItemsBounded(its, t, key, value, d) ==
    [k \in {key} |-> [value |-> value, expiration |-> t + d]]

\* SetItems that keeps the entry a key already has
SetItemsKeepExisting(its, t, key, value, d) ==
    [k \in DOMAIN its \cup {key} |->
        IF k \in DOMAIN its THEN its[k]
        ELSE [value |-> value, expiration |-> t + d]]

\* SetItems that stores every value under the key of the tests
SetItemsFixedKey(its, t, key, value, d) ==
    [k \in DOMAIN its \cup {"testKey"} |->
        IF k = "testKey" THEN [value |-> value, expiration |-> t + d]
        ELSE its[k]]

\* SetItems that never shortens the lifetime of an entry
SetItemsKeepLater(its, t, key, value, d) ==
    [k \in DOMAIN its \cup {key} |->
        IF k # key THEN its[k]
        ELSE IF key \in DOMAIN its /\ its[key].expiration > t + d
             THEN [value |-> value, expiration |-> its[key].expiration]
             ELSE [value |-> value, expiration |-> t + d]]

\* the map after InMemoryCache.Set at instant t
SetItems(its, t, key, value, d) ==
    [k \in DOMAIN its \cup {key} |->
        IF k = key THEN [value |-> value, expiration |-> t + d]
        ELSE its[k]]

\* DeleteItems that leaves an empty entry under the key
DeleteItemsTombstone(its, key) ==
    [k \in DOMAIN its \cup {key} |->
        IF k = key THEN [value |-> Nil, expiration |-> 0] ELSE its[k]]

\* DeleteItems that removes nothing
DeleteItemsNothing(its, key) == its

\* the map after InMemoryCache.Delete
DeleteItems(its, key) == [k \in DOMAIN its \ {key} |-> its[k]]

\* history of Set calls: arguments and instant of the last Set on key
NoteSet(w, t, key, value, d) ==
    [k \in DOMAIN w \cup {key} |->
        IF k = key
        THEN [value |-> value, ttl |-> d, at |-> t, deleted |-> FALSE]
        ELSE w[k]]

\* history of Delete calls: the last Set on key was followed by a Delete
NoteDelete(w, key) ==
    [k \in DOMAIN w |->
        IF k = key THEN [w[k] EXCEPT !.deleted = TRUE] ELSE w[k]]

\* history: no exchange with the upstream service yet
NoUpstream == [q |-> NoQuery, res |-> NilAddresses, err |-> NoErr]

\* a caller goroutine that is not inside a proxy call
IdleCall ==
    [pc |-> "idle", q |-> NoQuery, data |-> NilAddresses,
     gets |-> 0, ups |-> 0, sets |-> 0, reports |-> <<>>,
     up |-> NoUpstream]

ProxyIdle ==
    /\ UNCHANGED <<ttl, call>>

KeyIdle ==
    /\ UNCHANGED <<kq, kk>>

LockIdle ==
    /\ UNCHANGED <<mu, gor>>

HeapIdle ==
    /\ UNCHANGED <<heap, held>>

AuthIdle ==
    /\ UNCHANGED <<userStore, reg>>

\* userStore as declared: no user, RWMutex unlocked
EmptyUserStore == [holder |-> "none", users |-> << >>]

\* The zero sync.RWMutex.  writer is the goroutine inside Lock or holding
\* the write lock: Lock first shuts out the other writers and the new
\* readers, then waits for the readers that hold the lock to leave; locked
\* says that it has got the lock; readers hold the read lock.
FreeMu == [writer |-> "none", locked |-> FALSE, readers |-> {}]

\* history: what Set found under the key it writes, against the expiration
\* it stores
Prior(its, key, expiration) ==
    IF key \notin DOMAIN its THEN "absent"
    ELSE IF its[key].expiration > expiration THEN "expired later"
    ELSE "expired no later"

\* Get that deletes the expired entry it finds
GetEvictsExpired(key) ==
    /\ ret' = [op |-> "Get", key |-> key] @@ GetResult(items, now, key)
    /\ items' = IF key \in DOMAIN items /\ After(now, items[key].expiration)
                THEN DeleteItems(items, key)
                ELSE items
    /\ UNCHANGED <<now, writes, lazy, stopped>>
    /\ ProxyIdle /\ KeyIdle /\ LockIdle /\ HeapIdle /\ AuthIdle

\* InMemoryCache.Get
Get(key) ==
    /\ ret' = [op |-> "Get", key |-> key] @@ GetResult(items, now, key)
    /\ UNCHANGED <<items, now, writes, lazy, stopped>>
    /\ ProxyIdle /\ KeyIdle /\ LockIdle /\ HeapIdle /\ AuthIdle

\* InMemoryCache.Set
Set(key, value, d) ==
    /\ items' = SetItems(items, now, key, value, d)
    /\ writes' = NoteSet(writes, now, key, value, d)
    /\ lazy' = SetItems(lazy, now, key, value, d)
    /\ ret' = [op |-> "Set", key |-> key, value |-> value, ttl |-> d,
               prior |-> Prior(items, key, now + d)]
    /\ UNCHANGED <<now, stopped>>
    /\ ProxyIdle /\ KeyIdle /\ LockIdle /\ HeapIdle /\ AuthIdle

\* InMemoryCache.Delete
Delete(key) ==
    /\ items' = DeleteItems(items, key)
    /\ writes' = NoteDelete(writes, key)
    /\ lazy' = DeleteItems(lazy, key)
    /\ ret' = [op |-> "Delete", key |-> key,
               had |-> key \in DOMAIN items]
    /\ UNCHANGED <<now, stopped>>
    /\ ProxyIdle /\ KeyIdle /\ LockIdle /\ HeapIdle /\ AuthIdle

\* startCleanup that also removes the entries that expire at the instant
\* of the pass
startCleanupEager(d) ==
    /\ now + d <= MaxTime
    /\ stopped < MaxSweeps
    /\ stopped' = IF stopped >= 0 THEN stopped + 1 ELSE stopped
    /\ \E removed \in SUBSET (DOMAIN items) :
          /\ \A k \in DOMAIN items :
                /\ now >= items[k].expiration => k \in removed
                /\ k \in removed => now + d >= items[k].expiration
          /\ items' = [k \in DOMAIN items \ removed |-> items[k]]
          /\ ret' = [op |-> "cleanup", cleaned |-> Cardinality(removed)]
    /\ now' = now + d
    /\ UNCHANGED <<writes, lazy>>
    /\ ProxyIdle /\ KeyIdle /\ LockIdle /\ HeapIdle /\ AuthIdle

\* startCleanup that leaves the loop over the map after its first removal
startCleanupFirstOnly(d) ==
    /\ now + d <= MaxTime
    /\ stopped < MaxSweeps
    /\ stopped' = IF stopped >= 0 THEN stopped + 1 ELSE stopped
    /\ \E removed \in SUBSET (DOMAIN items) :
          /\ Cardinality(removed) <= 1
          /\ (\E k \in DOMAIN items : After(now, items[k].expiration))
                => removed # {}
          /\ \A k \in removed : After(now + d, items[k].expiration)
          /\ items' = [k \in DOMAIN items \ removed |-> items[k]]
          /\ ret' = [op |-> "cleanup", cleaned |-> Cardinality(removed)]
    /\ now' = now + d
    /\ UNCHANGED <<writes, lazy>>
    /\ ProxyIdle /\ KeyIdle /\ LockIdle /\ HeapIdle /\ AuthIdle

\* One pass of the loop body of InMemoryCache.startCleanup, under c.mu.Lock.
\* time.Now() is read once per entry while the pass runs, d is the time the
\* pass takes, and the map is ranged over in an arbitrary order: an entry
\* that is expired when the pass starts is removed, an entry that is not
\* expired when the pass ends is kept, any other entry may go either way.
startCleanup(d) ==
    /\ now + d <= MaxTime
    /\ stopped < MaxSweeps
    /\ stopped' = IF stopped >= 0 THEN stopped + 1 ELSE stopped
    /\ \E removed \in SUBSET (DOMAIN items) :
          /\ \A k \in DOMAIN items :
                /\ After(now, items[k].expiration) => k \in removed
                /\ k \in removed => After(now + d, items[k].expiration)
          /\ items' = [k \in DOMAIN items \ removed |-> items[k]]
          /\ ret' = [op |-> "cleanup", cleaned |-> Cardinality(removed)]
    /\ now' = now + d
    /\ UNCHANGED <<writes, lazy>>
    /\ ProxyIdle /\ KeyIdle /\ LockIdle /\ HeapIdle /\ AuthIdle

\* the wall clock advances
Tick ==
    /\ now < MaxTime
    /\ now' = now + 1
    /\ ret' = [op |-> "tick"]
    /\ UNCHANGED <<items, writes, lazy, stopped>>
    /\ ProxyIdle /\ KeyIdle /\ LockIdle /\ HeapIdle /\ AuthIdle

-----------------------------------------------------------------------------
(* SpecStore: the store under an arbitrary client *)

\* NewInMemoryCache
InitStore ==
    /\ items = << >>
    /\ now = 0
    /\ ttl = 0
    /\ call = [c \in Callers |-> IdleCall]
    /\ writes = << >>
    /\ ret = [op |-> "init"]
    /\ kq = <<NoQuery, NoQuery>>
    /\ kk = << >>
    /\ lazy = << >>
    /\ stopped = -1
    /\ mu = FreeMu
    /\ gor = << >>
    /\ heap = << >>
    /\ held = << >>
    /\ userStore = EmptyUserStore
    /\ reg = << >>

NextStore ==
    \/ \E key \in StoreKeys : Get(key)
    \/ \E key \in StoreKeys, value \in StoreValues, d \in Ttls :
          Set(key, value, d)
    \/ \E key \in StoreKeys : Delete(key)
    \/ \E d \in 0..1 : startCleanup(d)
    \/ Tick

SpecStore == InitStore /\ [][NextStore]_vars

-----------------------------------------------------------------------------
(* SpecStop: the store of SpecStore, given up by its owner at some point *)

\* The owner of the store is done with it: the function that made it
\* returns, or the process shuts down.  NewInMemoryCache hands out no stop
\* channel or context, so this is all the signal there is; the client
\* issues no call after it.
Stop ==
    /\ stopped = -1
    /\ stopped' = 0
    /\ ret' = [op |-> "stop"]
    /\ UNCHANGED <<items, now, writes, lazy>>
    /\ ProxyIdle /\ KeyIdle /\ LockIdle /\ HeapIdle /\ AuthIdle

NextStop ==
    \/ /\ stopped = -1
       /\ \/ \E key \in StoreKeys : Get(key)
          \/ \E key \in StoreKeys, value \in StoreValues, d \in Ttls :
                Set(key, value, d)
          \/ \E key \in StoreKeys : Delete(key)
    \/ \E d \in 0..1 : startCleanup(d)
    \/ Tick
    \/ Stop

SpecStop == InitStore /\ [][NextStop]_vars

-----------------------------------------------------------------------------
(* GeoServiceProxy *)

\* what the upstream geo service answers: a result with a nil error, or a
\* nil slice with an error (GeoService returns nil, err on every failure)
Responses ==
    {[res |-> r, err |-> NoErr] : r \in Results} \cup
    {[res |-> NilAddresses, err |-> e] : e \in Errs}

\* the event of a proxy call returning to its caller
Return(q, step, hit, result, err, cs) ==
    [op |-> "return", step |-> step, q |-> q, hit |-> hit,
     result |-> result, err |-> err,
     gets |-> cs.gets, ups |-> cs.ups, sets |-> cs.sets,
     reports |-> cs.reports, up |-> cs.up]

\* the event of a proxy call moving on to its next step
Pending(q, step) == [op |-> "pending", step |-> step, q |-> q]

\* ObserveCacheRequest that counts the hits only
ObserveCacheRequestHitsOnly(reports, method, hit) ==
    IF hit THEN Append(reports, [method |-> method, hit |-> hit])
    ELSE reports

\* metrics.ObserveCacheRequest(method, hit, duration)
ObserveCacheRequest(reports, method, hit) ==
    Append(reports, [method |-> method, hit |-> hit])

\* LookupStep that goes to the upstream service whatever Get found
LookupStepSkipCache(its, t, q) ==
    LET r == GetResult(its, t, CacheKey(q))
        cs == [IdleCall EXCEPT
                  !.q = q,
                  !.gets = 1,
                  !.reports = ObserveCacheRequest(<<>>, q.method, r.found)]
    IN  [call |-> [cs EXCEPT !.pc = "upstream"],
         ret |-> Pending(q, "Get")]

\* AddressSearch / GeoCode up to the return on a hit: derive the key, Get,
\* report, and on a hit return the cached value asserted to []*Address
LookupStep(its, t, q) ==
    LET r == GetResult(its, t, CacheKey(q))
        cs == [IdleCall EXCEPT
                  !.q = q,
                  !.gets = 1,
                  !.reports = ObserveCacheRequest(<<>>, q.method, r.found)]
    IN  IF r.found
        THEN IF r.value.tag = "addrs"
             THEN [call |-> IdleCall,
                   ret |-> Return(q, "Get", TRUE, r.value, NoErr, cs)]
             ELSE [call |-> IdleCall,
                   ret |-> [op |-> "panic", step |-> "Get", q |-> q]]
        ELSE [call |-> [cs EXCEPT !.pc = "upstream"],
              ret |-> Pending(q, "Get")]

\* UpstreamStep that calls the upstream service a second time on an error
UpstreamStepRetry(cs, resp) ==
    LET n == IF resp.err # NoErr THEN 2 ELSE 1
        called == [cs EXCEPT
                      !.ups = cs.ups + n,
                      !.up = [q |-> cs.q, res |-> resp.res, err |-> resp.err]]
    IN  IF resp.err # NoErr
        THEN [call |-> IdleCall,
              ret |-> Return(cs.q, "Upstream", FALSE, NilAddresses,
                             resp.err, called)]
        ELSE [call |-> [called EXCEPT !.pc = "store", !.data = resp.res],
              ret |-> Pending(cs.q, "Upstream")]

\* UpstreamStep that wraps the upstream error and passes the data on
UpstreamStepWrapErr(cs, resp) ==
    LET called == [cs EXCEPT
                      !.ups = cs.ups + 1,
                      !.up = [q |-> cs.q, res |-> resp.res, err |-> resp.err]]
    IN  IF resp.err # NoErr
        THEN [call |-> IdleCall,
              ret |-> Return(cs.q, "Upstream", FALSE, resp.res,
                             "cache: " \o resp.err, called)]
        ELSE [call |-> [called EXCEPT !.pc = "store", !.data = resp.res],
              ret |-> Pending(cs.q, "Upstream")]

\* AddressSearch / GeoCode after a miss: call the upstream service with the
\* raw arguments and return nil with its error if it fails
UpstreamStep(cs, resp) ==
    LET called == [cs EXCEPT
                      !.ups = cs.ups + 1,
                      !.up = [q |-> cs.q, res |-> resp.res, err |-> resp.err]]
    IN  IF resp.err # NoErr
        THEN [call |-> IdleCall,
              ret |-> Return(cs.q, "Upstream", FALSE, NilAddresses,
                             resp.err, called)]
        ELSE [call |-> [called EXCEPT !.pc = "store", !.data = resp.res],
              ret |-> Pending(cs.q, "Upstream")]

\* StoreStep that refreshes the value of an entry the store still holds and
\* leaves its expiration as it was
StoreStepKeepsExpiry(its, w, t, cs, d) ==
    LET key == CacheKey(cs.q)
        left == IF key \in DOMAIN its THEN its[key].expiration - t ELSE d
        done == [cs EXCEPT
                    !.sets = cs.sets + 1,
                    !.reports = ObserveCacheRequest(cs.reports,
                                    cs.q.method \o "_Set", TRUE)]
    IN  [items |-> SetItems(its, t, key, cs.data, left),
         writes |-> NoteSet(w, t, key, cs.data, d),
         call |-> IdleCall,
         ret |-> Return(cs.q, "Set", FALSE, cs.data, NoErr, done)]

\* StoreStep that does not store a result without addresses
StoreStepSkipsEmpty(its, w, t, cs, d) ==
    LET key == CacheKey(cs.q)
        empty == cs.data = NilAddresses
        done == [cs EXCEPT
                    !.sets = cs.sets + 1,
                    !.reports = ObserveCacheRequest(cs.reports,
                                    cs.q.method \o "_Set", TRUE)]
    IN  [items |-> IF empty THEN its ELSE SetItems(its, t, key, cs.data, d),
         writes |-> IF empty THEN w ELSE NoteSet(w, t, key, cs.data, d),
         call |-> IdleCall,
         ret |-> Return(cs.q, "Set", FALSE, cs.data, NoErr,
                        IF empty THEN cs ELSE done)]

\* StoreStep that stores the result encoded as a string
StoreStepEncoded(its, w, t, cs, d) ==
    LET key == CacheKey(cs.q)
        encoded == StringValue("json")
        done == [cs EXCEPT
                    !.sets = cs.sets + 1,
                    !.reports = ObserveCacheRequest(cs.reports,
                                    cs.q.method \o "_Set", TRUE)]
    IN  [items |-> SetItems(its, t, key, encoded, d),
         writes |-> NoteSet(w, t, key, encoded, d),
         call |-> IdleCall,
         ret |-> Return(cs.q, "Set", FALSE, cs.data, NoErr, done)]

\* StoreStep that passes the measured duration of the Get, zero on this
\* clock, where the ttl of the proxy belongs
StoreStepNoTtl(its, w, t, cs, d) ==
    LET key == CacheKey(cs.q)
        done == [cs EXCEPT
                    !.sets = cs.sets + 1,
                    !.reports = ObserveCacheRequest(cs.reports,
                                    cs.q.method \o "_Set", TRUE)]
    IN  [items |-> SetItems(its, t, key, cs.data, 0),
         writes |-> NoteSet(w, t, key, cs.data, 0),
         call |-> IdleCall,
         ret |-> Return(cs.q, "Set", FALSE, cs.data, NoErr, done)]

\* StoreStep that leaves a live entry of the key alone: the first of two
\* concurrent fills wins
StoreStepIfAbsent(its, w, t, cs, d) ==
    LET key == CacheKey(cs.q)
        live == GetResult(its, t, key).found
        done == [cs EXCEPT
                    !.sets = cs.sets + 1,
                    !.reports = ObserveCacheRequest(cs.reports,
                                    cs.q.method \o "_Set", TRUE)]
    IN  [items |-> IF live THEN its ELSE SetItems(its, t, key, cs.data, d),
         writes |-> IF live THEN w ELSE NoteSet(w, t, key, cs.data, d),
         call |-> IdleCall,
         ret |-> Return(cs.q, "Set", FALSE, cs.data, NoErr, done)]

\* AddressSearch / GeoCode after the upstream success: Set the result under
\* the derived key with the ttl of the proxy, report, return the result
StoreStep(its, w, t, cs, d) ==
    LET key == CacheKey(cs.q)
        done == [cs EXCEPT
                    !.sets = cs.sets + 1,
                    !.reports = ObserveCacheRequest(cs.reports,
                                    cs.q.method \o "_Set", TRUE)]
    IN  [items |-> SetItems(its, t, key, cs.data, d),
         writes |-> NoteSet(w, t, key, cs.data, d),
         call |-> IdleCall,
         ret |-> Return(cs.q, "Set", FALSE, cs.data, NoErr, done)]

\* a caller enters AddressSearch or GeoCode and runs it up to the upstream
\* call, or to the return on a hit
ProxyGet(c, q) ==
    /\ call[c].pc = "idle"
    /\ LET step == LookupStep(items, now, q)
       IN  /\ call' = [call EXCEPT ![c] = step.call]
           /\ ret' = step.ret
    /\ UNCHANGED <<items, now, ttl, writes, lazy, stopped>>
    /\ KeyIdle /\ LockIdle /\ HeapIdle /\ AuthIdle

\* ProxyUpstream that stores the nil result of a failed upstream call
ProxyUpstreamCachesFailure(c, resp) ==
    /\ call[c].pc = "upstream"
    /\ LET step == UpstreamStep(call[c], resp)
           key == CacheKey(call[c].q)
       IN  /\ call' = [call EXCEPT ![c] = step.call]
           /\ ret' = step.ret
           /\ IF resp.err # NoErr
              THEN /\ items' = SetItems(items, now, key, resp.res, ttl)
                   /\ writes' = NoteSet(writes, now, key, resp.res, ttl)
              ELSE UNCHANGED <<items, writes>>
    /\ UNCHANGED <<now, ttl, lazy, stopped>>
    /\ KeyIdle /\ LockIdle /\ HeapIdle /\ AuthIdle

\* the upstream call of a caller answers
ProxyUpstream(c, resp) ==
    /\ call[c].pc = "upstream"
    /\ LET step == UpstreamStep(call[c], resp)
       IN  /\ call' = [call EXCEPT ![c] = step.call]
           /\ ret' = step.ret
    /\ UNCHANGED <<items, now, ttl, writes, lazy, stopped>>
    /\ KeyIdle /\ LockIdle /\ HeapIdle /\ AuthIdle

\* a caller stores the upstream result and returns it
ProxySet(c) ==
    /\ call[c].pc = "store"
    /\ LET step == StoreStep(items, writes, now, call[c], ttl)
       IN  /\ items' = step.items
           /\ writes' = step.writes
           /\ call' = [call EXCEPT ![c] = step.call]
           /\ ret' = step.ret
           /\ lazy' = SetItems(lazy, now, CacheKey(call[c].q),
                               call[c].data, ttl)
    /\ UNCHANGED <<now, ttl, stopped>>
    /\ KeyIdle /\ LockIdle /\ HeapIdle /\ AuthIdle

-----------------------------------------------------------------------------
(* Spec: the program as wired in setupRouter *)

\* NewInMemoryCache, NewGeoServiceProxy(upstream, cache, ttl)
Init ==
    /\ items = << >>
    /\ now = 0
    /\ ttl \in Ttls
    /\ call = [c \in Callers |-> IdleCall]
    /\ writes = << >>
    /\ ret = [op |-> "init"]
    /\ kq = <<NoQuery, NoQuery>>
    /\ kk = << >>
    /\ lazy = << >>
    /\ stopped = -1
    /\ mu = FreeMu
    /\ gor = << >>
    /\ heap = << >>
    /\ held = << >>
    /\ userStore = EmptyUserStore
    /\ reg = << >>

Next ==
    \/ \E c \in DOMAIN call, q \in Requests : ProxyGet(c, q)
    \/ \E c \in DOMAIN call, resp \in Responses : ProxyUpstream(c, resp)
    \/ \E c \in DOMAIN call : ProxySet(c)
    \/ \E d \in 0..1 : startCleanup(d)
    \/ Tick

Spec == Init /\ [][Next]_vars

-----------------------------------------------------------------------------
(* SpecConc: the program with two concurrent proxy callers *)

\* two request goroutines of the HTTP server inside the proxy at a time
ConcCallers == {"c1", "c2"}

InitConc ==
    /\ items = << >>
    /\ now = 0
    /\ ttl \in Ttls
    /\ call = [c \in ConcCallers |-> IdleCall]
    /\ writes = << >>
    /\ ret = [op |-> "init"]
    /\ kq = <<NoQuery, NoQuery>>
    /\ kk = << >>
    /\ lazy = << >>
    /\ stopped = -1
    /\ mu = FreeMu
    /\ gor = << >>
    /\ heap = << >>
    /\ held = << >>
    /\ userStore = EmptyUserStore
    /\ reg = << >>

SpecConc == InitConc /\ [][Next]_vars

-----------------------------------------------------------------------------
(* SpecSearch: AddressSearch called with queries that differ in case or in *)
(* white space only, over an upstream service whose answer names the query *)
(* it was asked                                                            *)

\* the query of the tests, the same in another case and with a blank added
SearchInputs == {"query", "Query", "query "}

\* the upstream answers to a query: an address found for these very words,
\* or an error
EchoResponses(q) ==
    {[res |-> Addresses(<<q.a>>), err |-> NoErr]} \cup
    {[res |-> NilAddresses, err |-> e] : e \in Errs}

\* setupRouter: the store empty, the proxy with a positive ttl
InitSearch ==
    /\ items = << >>
    /\ now = 0
    /\ ttl = MaxTtl
    /\ call = [c \in Callers |-> IdleCall]
    /\ writes = << >>
    /\ ret = [op |-> "init"]
    /\ kq = <<NoQuery, NoQuery>>
    /\ kk = << >>
    /\ lazy = << >>
    /\ stopped = -1
    /\ mu = FreeMu
    /\ gor = << >>
    /\ heap = << >>
    /\ held = << >>
    /\ userStore = EmptyUserStore
    /\ reg = << >>

NextSearch ==
    \/ \E c \in DOMAIN call, input \in SearchInputs :
          ProxyGet(c, SearchQuery(input))
    \/ \E c \in DOMAIN call :
          \E resp \in EchoResponses(call[c].q) : ProxyUpstream(c, resp)
    \/ \E c \in DOMAIN call : ProxySet(c)
    \/ \E d \in 0..1 : startCleanup(d)
    \/ Tick

SpecSearch == InitSearch /\ [][NextSearch]_vars

-----------------------------------------------------------------------------
(* SpecProvenance: the requests of Spec over an upstream service whose
   answers name the query they answer, so that a result tells which query
   the upstream service returned it for *)

\* the answer of the upstream service that is found for query q alone
AnswerOf(q) == Addresses(<<q.method, q.a, q.b>>)

\* the upstream answers to a query: its own answer, or an error
OwnResponses(q) ==
    {[res |-> AnswerOf(q), err |-> NoErr]} \cup
    {[res |-> NilAddresses, err |-> e] : e \in Errs}

NextProvenance ==
    \/ \E c \in DOMAIN call, q \in Requests : ProxyGet(c, q)
    \/ \E c \in DOMAIN call :
          \E resp \in OwnResponses(call[c].q) : ProxyUpstream(c, resp)
    \/ \E c \in DOMAIN call : ProxySet(c)
    \/ \E d \in 0..1 : startCleanup(d)
    \/ Tick

SpecProvenance == InitSearch /\ [][NextProvenance]_vars

-----------------------------------------------------------------------------
(* SpecAlias: the proxy calls of Spec with the values as Go has them.  A    *)
(* []*service.Address is a list of pointers; the structs they point to are *)
(* in heap.  Set stores the slice it is given and Get returns the slice it  *)
(* finds: no step copies a struct.                                          *)

\* the pointers of a slice
Pointers(value) ==
    IF value.tag = "addrs"
    THEN {value.list[i] : i \in 1..Len(value.list)}
    ELSE {}

\* &Address{City: ...} as GeoService builds it; stored is history: the City
\* the struct had when a slice with its pointer was last given to Set
NewAddress(city) == [City |-> city, stored |-> "not stored"]

\* history: the structs of a value are noted as they are when Set gets it
NoteStored(h, value) ==
    [p \in DOMAIN h |->
        IF p \in Pointers(value) THEN [h[p] EXCEPT !.stored = h[p].City]
        ELSE h[p]]

\* a caller enters AddressSearch and runs it up to the upstream call, or to
\* the return of the cached slice on a hit
AliasGet(c, q) ==
    /\ call[c].pc = "idle"
    /\ LET step == LookupStep(items, now, q)
       IN  /\ call' = [call EXCEPT ![c] = step.call]
           /\ ret' = step.ret
           /\ held' = IF step.ret.op = "return"
                      THEN [held EXCEPT ![c] = step.ret.result]
                      ELSE held
    /\ UNCHANGED <<items, now, ttl, writes, lazy, stopped, heap>>
    /\ KeyIdle /\ LockIdle /\ AuthIdle

\* the upstream service fails
AliasUpstreamFails(c, err) ==
    /\ call[c].pc = "upstream"
    /\ LET step == UpstreamStep(call[c], [res |-> NilAddresses, err |-> err])
       IN  /\ call' = [call EXCEPT ![c] = step.call]
           /\ ret' = step.ret
           /\ held' = [held EXCEPT ![c] = step.ret.result]
    /\ UNCHANGED <<items, now, ttl, writes, lazy, stopped, heap>>
    /\ KeyIdle /\ LockIdle /\ AuthIdle

\* the upstream service answers with a slice of one Address it has built
AliasUpstream(c) ==
    /\ call[c].pc = "upstream"
    /\ Cardinality(DOMAIN heap) < MaxAllocs
    /\ LET p == Cardinality(DOMAIN heap) + 1
           resp == [res |-> Addresses(<<p>>), err |-> NoErr]
           step == UpstreamStep(call[c], resp)
       IN  /\ heap' = [x \in DOMAIN heap \cup {p} |->
                          IF x = p THEN NewAddress("Moscow") ELSE heap[x]]
           /\ call' = [call EXCEPT ![c] = step.call]
           /\ ret' = step.ret
    /\ UNCHANGED <<items, now, ttl, writes, lazy, stopped, held>>
    /\ KeyIdle /\ LockIdle /\ AuthIdle

\* the caller stores the slice of the upstream service and returns it
AliasSet(c) ==
    /\ call[c].pc = "store"
    /\ LET step == StoreStep(items, writes, now, call[c], ttl)
       IN  /\ items' = step.items
           /\ writes' = step.writes
           /\ call' = [call EXCEPT ![c] = step.call]
           /\ ret' = step.ret
           /\ held' = [held EXCEPT ![c] = step.ret.result]
           /\ heap' = NoteStored(heap, call[c].data)
    /\ UNCHANGED <<now, ttl, lazy, stopped>>
    /\ KeyIdle /\ LockIdle /\ AuthIdle

\* a caller writes a field of an Address of the slice its call returned
Mutate(c, p) ==
    /\ p \in Pointers(held[c])
    /\ heap[p].City # "changed"
    /\ heap' = [heap EXCEPT ![p].City = "changed"]
    /\ ret' = [op |-> "mutate", caller |-> c]
    /\ UNCHANGED <<items, now, ttl, call, writes, lazy, stopped, held>>
    /\ KeyIdle /\ LockIdle /\ AuthIdle

\* setupRouter, and two callers that hold no result yet
InitAlias ==
    /\ items = << >>
    /\ now = 0
    /\ ttl = MaxTtl
    /\ call = [c \in ConcCallers |-> IdleCall]
    /\ writes = << >>
    /\ ret = [op |-> "init"]
    /\ kq = <<NoQuery, NoQuery>>
    /\ kk = << >>
    /\ lazy = << >>
    /\ stopped = -1
    /\ mu = FreeMu
    /\ gor = << >>
    /\ heap = << >>
    /\ held = [c \in ConcCallers |-> NilAddresses]
    /\ userStore = EmptyUserStore
    /\ reg = << >>

NextAlias ==
    \/ \E c \in DOMAIN call, q \in Requests : AliasGet(c, q)
    \/ \E c \in DOMAIN call, err \in Errs : AliasUpstreamFails(c, err)
    \/ \E c \in DOMAIN call : AliasUpstream(c)
    \/ \E c \in DOMAIN call : AliasSet(c)
    \/ \E c \in DOMAIN call, p \in DOMAIN heap : Mutate(c, p)
    \/ \E d \in 0..1 : startCleanup(d)
    \/ Tick

SpecAlias == InitAlias /\ [][NextAlias]_vars

-----------------------------------------------------------------------------
(* SpecLock: the store at the level of its mutex.  Every call of Get, Set *)
(* and Delete and every cleanup pass takes c.mu, works on the map and      *)
(* releases c.mu on return.  The history variables writes, lazy and ret    *)
(* belong to the specifications with atomic calls and are not kept here.   *)

\* the goroutines of TestInMemoryCache_ConcurrentAccess
LockClients == {"g1", "g2"}

\* the goroutine of startCleanup
Cleaner == "cleanup"

\* the keys, values and ttls the client goroutines use: the key of the
\* tests and a key of the proxy, with a positive ttl as in the tests
LockKeys == {"testKey", SearchKey("a")}
LockValues == {Addresses(<<"Moscow">>)}
LockTtls == {MaxTtl}

\* the queries the proxy caller of SpecProxyLock issues
LockRequests == {SearchQuery("a")}

\* a goroutine outside the store
IdleGor ==
    [pc |-> "idle", op |-> "none", key |-> "", value |-> Nil, ttl |-> 0,
     todo |-> {}]

\* a goroutine that has called op and has not got c.mu yet
StartGor(op, key, value, d) ==
    [pc |-> "start", op |-> op, key |-> key, value |-> value, ttl |-> d,
     todo |-> {}]

\* sync.RWMutex.RUnlock
RUnlock(m, g) == [m EXCEPT !.readers = m.readers \ {g}]

\* Unlock that is never reached: the call returns with the lock held
UnlockForgotten(m) == m

\* sync.RWMutex.Unlock
Unlock(m) == [m EXCEPT !.writer = "none", !.locked = FALSE]

\* what no step at the level of the mutex changes
LockFrame ==
    /\ UNCHANGED <<ttl, writes, ret, kq, kk, lazy, stopped>>
    /\ HeapIdle /\ AuthIdle

\* a client goroutine calls Get, Set or Delete
Call(g, op, key, value, d) ==
    /\ gor[g].pc = "idle"
    /\ gor' = [gor EXCEPT ![g] = StartGor(op, key, value, d)]
    /\ UNCHANGED <<items, now, call, mu>>
    /\ LockFrame

\* the ticker of startCleanup fires and the loop body starts
CleanupTick ==
    /\ gor[Cleaner].pc = "idle"
    /\ gor' = [gor EXCEPT ![Cleaner] = StartGor("cleanup", "", Nil, 0)]
    /\ UNCHANGED <<items, now, call, mu>>
    /\ LockFrame

\* RLock that does not wait for a writer
RLockUnguarded(g) ==
    /\ gor[g].pc = "start"
    /\ gor[g].op = "Get"
    /\ mu' = [mu EXCEPT !.readers = mu.readers \cup {g}]
    /\ gor' = [gor EXCEPT ![g].pc = "in"]
    /\ UNCHANGED <<items, now, call>>
    /\ LockFrame

\* c.mu.RLock() of Get: waits while a writer is inside Lock or holds the lock
RLock(g) ==
    /\ gor[g].pc = "start"
    /\ gor[g].op = "Get"
    /\ mu.writer = "none"
    /\ mu' = [mu EXCEPT !.readers = mu.readers \cup {g}]
    /\ gor' = [gor EXCEPT ![g].pc = "in"]
    /\ UNCHANGED <<items, now, call>>
    /\ LockFrame

\* c.mu.Lock() of Set, Delete and startCleanup, first half: shut out the
\* other writers and the new readers
LockAnnounce(g) ==
    /\ gor[g].pc = "start"
    /\ gor[g].op \in {"Set", "Delete", "cleanup"}
    /\ mu.writer = "none"
    /\ mu' = [mu EXCEPT !.writer = g]
    /\ gor' = [gor EXCEPT ![g].pc = "wait"]
    /\ UNCHANGED <<items, now, call>>
    /\ LockFrame

\* c.mu.Lock(), second half: the readers have left and the lock is taken;
\* the cleanup pass starts to range over the map
LockAcquire(g) ==
    /\ gor[g].pc = "wait"
    /\ mu.writer = g
    /\ mu.readers = {}
    /\ mu' = [mu EXCEPT !.locked = TRUE]
    /\ gor' = [gor EXCEPT
                  ![g].pc = "in",
                  ![g].todo = IF g = Cleaner THEN DOMAIN items ELSE {}]
    /\ UNCHANGED <<items, now, call>>
    /\ LockFrame

\* Get of a client reads the map and returns through the deferred RUnlock
GetDone(g) ==
    /\ g \notin DOMAIN call
    /\ gor[g].pc = "in"
    /\ gor[g].op = "Get"
    /\ GetResult(items, now, gor[g].key).found \in BOOLEAN
    /\ mu' = RUnlock(mu, g)
    /\ gor' = [gor EXCEPT ![g] = IdleGor]
    /\ UNCHANGED <<items, now, call>>
    /\ LockFrame

\* Set of a client writes the entry and returns through the deferred Unlock
SetDone(g) ==
    /\ g \notin DOMAIN call
    /\ gor[g].pc = "in"
    /\ gor[g].op = "Set"
    /\ items' = SetItems(items, now, gor[g].key, gor[g].value, gor[g].ttl)
    /\ mu' = Unlock(mu)
    /\ gor' = [gor EXCEPT ![g] = IdleGor]
    /\ UNCHANGED <<now, call>>
    /\ LockFrame

\* Delete removes the entry and returns through the deferred Unlock
DeleteDone(g) ==
    /\ gor[g].pc = "in"
    /\ gor[g].op = "Delete"
    /\ items' = DeleteItems(items, gor[g].key)
    /\ mu' = Unlock(mu)
    /\ gor' = [gor EXCEPT ![g] = IdleGor]
    /\ UNCHANGED <<now, call>>
    /\ LockFrame

\* CleanupVisit that counts the expired entry and leaves it in the map
CleanupVisitCountsOnly(key) ==
    /\ gor[Cleaner].pc = "in"
    /\ key \in gor[Cleaner].todo
    /\ items' = items
    /\ gor' = [gor EXCEPT ![Cleaner].todo = gor[Cleaner].todo \ {key}]
    /\ UNCHANGED <<now, call, mu>>
    /\ LockFrame

\* CleanupVisit that also deletes the entry that expires at this instant
CleanupVisitEager(key) ==
    /\ gor[Cleaner].pc = "in"
    /\ key \in gor[Cleaner].todo
    /\ items' = IF key \in DOMAIN items /\ now >= items[key].expiration
                THEN DeleteItems(items, key)
                ELSE items
    /\ gor' = [gor EXCEPT ![Cleaner].todo = gor[Cleaner].todo \ {key}]
    /\ UNCHANGED <<now, call, mu>>
    /\ LockFrame

\* the cleanup pass comes to one entry of the map and deletes it if
\* time.Now() is after its expiration
CleanupVisit(key) ==
    /\ gor[Cleaner].pc = "in"
    /\ key \in gor[Cleaner].todo
    /\ items' = IF key \in DOMAIN items /\ After(now, items[key].expiration)
                THEN DeleteItems(items, key)
                ELSE items
    /\ gor' = [gor EXCEPT ![Cleaner].todo = gor[Cleaner].todo \ {key}]
    /\ UNCHANGED <<now, call, mu>>
    /\ LockFrame

\* the cleanup pass has ranged over the map and unlocks
CleanupDone ==
    /\ gor[Cleaner].pc = "in"
    /\ gor[Cleaner].todo = {}
    /\ mu' = Unlock(mu)
    /\ gor' = [gor EXCEPT ![Cleaner] = IdleGor]
    /\ UNCHANGED <<items, now, call>>
    /\ LockFrame

\* NewInMemoryCache with its cleanup goroutine, and the client goroutines
InitLock ==
    /\ items = << >>
    /\ now = 0
    /\ ttl = MaxTtl
    /\ call = << >>
    /\ writes = << >>
    /\ ret = [op |-> "init"]
    /\ kq = <<NoQuery, NoQuery>>
    /\ kk = << >>
    /\ lazy = << >>
    /\ stopped = -1
    /\ mu = FreeMu
    /\ gor = [g \in LockClients \cup {Cleaner} |-> IdleGor]
    /\ heap = << >>
    /\ held = << >>
    /\ userStore = EmptyUserStore
    /\ reg = << >>

\* the steps of the goroutines of the store
StoreSteps ==
    \/ \E g \in DOMAIN gor \ (DOMAIN call \cup {Cleaner}) :
          \/ \E key \in LockKeys : Call(g, "Get", key, Nil, 0)
          \/ \E key \in LockKeys, value \in LockValues, d \in LockTtls :
                Call(g, "Set", key, value, d)
          \/ \E key \in LockKeys : Call(g, "Delete", key, Nil, 0)
    \/ CleanupTick
    \/ \E g \in DOMAIN gor : RLock(g)
    \/ \E g \in DOMAIN gor : LockAnnounce(g)
    \/ \E g \in DOMAIN gor : LockAcquire(g)
    \/ \E g \in DOMAIN gor : GetDone(g)
    \/ \E g \in DOMAIN gor : SetDone(g)
    \/ \E g \in DOMAIN gor : DeleteDone(g)
    \/ \E key \in LockKeys : CleanupVisit(key)
    \/ CleanupDone

NextLock ==
    \/ StoreSteps
    \/ Tick

SpecLock == InitLock /\ [][NextLock]_vars

\* The scheduling the Go runtime gives the goroutines of SpecLock.  A
\* goroutine that can run does run: weak fairness of the steps that wait
\* for nothing, and of the second half of Lock, which nothing can disable
\* once the readers have left.  sync.Mutex hands the lock to a waiter that
\* has been starved and RWMutex.Unlock wakes the readers that wait before
\* the next writer gets in: a goroutine that finds the lock free again and
\* again gets it, strong fairness of RLock and of the first half of Lock.
\* Nothing obliges a client to call, the ticker to fire or the clock to
\* advance.
FairLock ==
    /\ \A g \in LockClients \cup {Cleaner} :
          /\ SF_vars(RLock(g))
          /\ SF_vars(LockAnnounce(g))
          /\ WF_vars(LockAcquire(g))
          /\ WF_vars(GetDone(g))
          /\ WF_vars(SetDone(g))
          /\ WF_vars(DeleteDone(g))
    /\ WF_vars(\E key \in LockKeys : CleanupVisit(key))
    /\ WF_vars(CleanupDone)

SpecFair == SpecLock /\ FairLock

\* SpecFair with a ticker that keeps firing, as time.NewTicker does for
\* the life of the process, and a clock that keeps advancing as far as the
\* model lets it.  Nothing obliges a client to call.
SpecSweep == SpecFair /\ WF_vars(CleanupTick) /\ WF_vars(Tick)

-----------------------------------------------------------------------------
(* SpecProxyLock: a proxy call at the level of the mutex of the store.  The *)
(* call takes c.mu only inside cache.Get and inside cache.Set.              *)

\* a caller enters AddressSearch or GeoCode and calls c.cache.Get(cacheKey)
ProxyEnter(c, q) ==
    /\ call[c].pc = "idle"
    /\ gor[c].pc = "idle"
    /\ call' = [call EXCEPT ![c] = [IdleCall EXCEPT !.pc = "lookup", !.q = q]]
    /\ gor' = [gor EXCEPT ![c] = StartGor("Get", CacheKey(q), Nil, 0)]
    /\ UNCHANGED <<items, now, mu>>
    /\ LockFrame

\* ProxyGetDone with the read lock still held when Get has returned
ProxyGetDoneKeepsLock(c) ==
    /\ call[c].pc = "lookup"
    /\ gor[c].pc = "in"
    /\ gor[c].op = "Get"
    /\ call' = [call EXCEPT ![c] = LookupStep(items, now, call[c].q).call]
    /\ gor' = [gor EXCEPT ![c] = IdleGor]
    /\ UNCHANGED <<items, now, mu>>
    /\ LockFrame

\* Get of the caller reads the map and returns through the deferred
\* RUnlock; the call goes on to the upstream call, or returns on a hit
ProxyGetDone(c) ==
    /\ call[c].pc = "lookup"
    /\ gor[c].pc = "in"
    /\ gor[c].op = "Get"
    /\ call' = [call EXCEPT ![c] = LookupStep(items, now, call[c].q).call]
    /\ mu' = RUnlock(mu, c)
    /\ gor' = [gor EXCEPT ![c] = IdleGor]
    /\ UNCHANGED <<items, now>>
    /\ LockFrame

\* the caller has the upstream result and calls c.cache.Set(cacheKey, ...)
ProxyStore(c) ==
    /\ call[c].pc = "store"
    /\ gor[c].pc = "idle"
    /\ gor' = [gor EXCEPT
                  ![c] = StartGor("Set", CacheKey(call[c].q), call[c].data,
                                  ttl)]
    /\ UNCHANGED <<items, now, call, mu>>
    /\ LockFrame

\* Set of the caller writes the entry and returns through the deferred
\* Unlock; the call returns the upstream result
ProxySetDone(c) ==
    /\ call[c].pc = "store"
    /\ gor[c].pc = "in"
    /\ gor[c].op = "Set"
    /\ LET step == StoreStep(items, writes, now, call[c], gor[c].ttl)
       IN  /\ items' = step.items
           /\ call' = [call EXCEPT ![c] = step.call]
    /\ mu' = Unlock(mu)
    /\ gor' = [gor EXCEPT ![c] = IdleGor]
    /\ UNCHANGED now
    /\ LockFrame

\* the store and the proxy of setupRouter, one caller of the proxy and the
\* client goroutines
InitProxyLock ==
    /\ items = << >>
    /\ now = 0
    /\ ttl = MaxTtl
    /\ call = [c \in Callers |-> IdleCall]
    /\ writes = << >>
    /\ ret = [op |-> "init"]
    /\ kq = <<NoQuery, NoQuery>>
    /\ kk = << >>
    /\ lazy = << >>
    /\ stopped = -1
    /\ mu = FreeMu
    /\ gor = [g \in LockClients \cup Callers \cup {Cleaner} |-> IdleGor]
    /\ heap = << >>
    /\ held = << >>
    /\ userStore = EmptyUserStore
    /\ reg = << >>

NextProxyLock ==
    \/ StoreSteps
    \/ Tick
    \/ \E c \in DOMAIN call, q \in LockRequests : ProxyEnter(c, q)
    \/ \E c \in DOMAIN call : ProxyGetDone(c)
    \/ \E c \in DOMAIN call, resp \in Responses : ProxyUpstream(c, resp)
    \/ \E c \in DOMAIN call : ProxyStore(c)
    \/ \E c \in DOMAIN call : ProxySetDone(c)

SpecProxyLock == InitProxyLock /\ [][NextProxyLock]_vars

-----------------------------------------------------------------------------
(* SpecAuth: RegisterHandler called by concurrent request goroutines over *)
(* the userStore of the process                                            *)

\* the goroutines net/http serves the requests on
RegHandlers == {"r1", "r2", "r3"}

\* the e-mails and passwords of the requests
RegEmails == {"existing@example.com", "test@example.com"}
LongPassword == "a password of more than 72 bytes"
RegPasswords == {"password123", "newpassword456", LongPassword}

\* request bodies: one that json.Decode rejects, and the well-formed ones
BadBody == [ok |-> FALSE, email |-> "", password |-> ""]
RegBodies ==
    {BadBody} \cup
    {[ok |-> TRUE, email |-> e, password |-> p] :
        e \in RegEmails, p \in RegPasswords}

\* the answers of RegisterHandler
StatusCreated == 201
StatusBadRequest == 400
StatusConflict == 409
StatusInternalServerError == 500

\* bcrypt.GenerateFromPassword: an error for a password that is too long,
\* else a hash under a fresh salt, here the name of the goroutine
BcryptFails(password) == password = LongPassword
HashOf(h, password) == "bcrypt(" \o password \o "," \o h \o ")"

User(email, hash) == [Email |-> email, PasswordHash |-> hash]

\* a request goroutine before its request, and when it has answered
IdleReg == [pc |-> "idle", email |-> "", hash |-> "", status |-> 0]
Answered(r, status) == [r EXCEPT !.pc = "done", !.status = status]

\* RegisterHandler up to userStore.Lock(): decode the body, hash the
\* password
RegisterDecode(h, body) ==
    /\ reg[h].pc = "idle"
    /\ reg' = [reg EXCEPT ![h] =
                  IF ~body.ok THEN Answered(IdleReg, StatusBadRequest)
                  ELSE IF BcryptFails(body.password)
                  THEN Answered([IdleReg EXCEPT !.email = body.email],
                                StatusInternalServerError)
                  ELSE [IdleReg EXCEPT
                           !.pc = "lock",
                           !.email = body.email,
                           !.hash = HashOf(h, body.password)]]
    /\ UNCHANGED <<items, now, ttl, call, writes, ret, lazy, stopped,
                   userStore>>
    /\ KeyIdle /\ LockIdle /\ HeapIdle

\* userStore.Lock() that does not wait for the goroutine that holds it
RegisterLockUnguarded(h) ==
    /\ reg[h].pc = "lock"
    /\ userStore' = [userStore EXCEPT !.holder = h]
    /\ reg' = [reg EXCEPT ![h].pc = "check"]
    /\ UNCHANGED <<items, now, ttl, call, writes, ret, lazy, stopped>>
    /\ KeyIdle /\ LockIdle /\ HeapIdle

\* userStore.Lock()
RegisterLock(h) ==
    /\ reg[h].pc = "lock"
    /\ userStore.holder = "none"
    /\ userStore' = [userStore EXCEPT !.holder = h]
    /\ reg' = [reg EXCEPT ![h].pc = "check"]
    /\ UNCHANGED <<items, now, ttl, call, writes, ret, lazy, stopped>>
    /\ KeyIdle /\ LockIdle /\ HeapIdle

\* the existence check: 409 and the deferred Unlock if the e-mail is there
RegisterCheck(h) ==
    /\ reg[h].pc = "check"
    /\ IF reg[h].email \in DOMAIN userStore.users
       THEN /\ reg' = [reg EXCEPT ![h] = Answered(reg[h], StatusConflict)]
            /\ userStore' = [userStore EXCEPT !.holder = "none"]
       ELSE /\ reg' = [reg EXCEPT ![h].pc = "insert"]
            /\ UNCHANGED userStore
    /\ UNCHANGED <<items, now, ttl, call, writes, ret, lazy, stopped>>
    /\ KeyIdle /\ LockIdle /\ HeapIdle

\* userStore.users[req.Email] = User{...}, 201 and the deferred Unlock
RegisterInsert(h) ==
    /\ reg[h].pc = "insert"
    /\ userStore' =
          [holder |-> "none",
           users |-> [e \in DOMAIN userStore.users \cup {reg[h].email} |->
                        IF e = reg[h].email
                        THEN User(reg[h].email, reg[h].hash)
                        ELSE userStore.users[e]]]
    /\ reg' = [reg EXCEPT ![h] = Answered(reg[h], StatusCreated)]
    /\ UNCHANGED <<items, now, ttl, call, writes, ret, lazy, stopped>>
    /\ KeyIdle /\ LockIdle /\ HeapIdle

\* the process has started: userStore is empty, no request yet
InitAuth ==
    /\ items = << >>
    /\ now = 0
    /\ ttl = 0
    /\ call = << >>
    /\ writes = << >>
    /\ ret = [op |-> "init"]
    /\ kq = <<NoQuery, NoQuery>>
    /\ kk = << >>
    /\ lazy = << >>
    /\ stopped = -1
    /\ mu = FreeMu
    /\ gor = << >>
    /\ heap = << >>
    /\ held = << >>
    /\ userStore = EmptyUserStore
    /\ reg = [h \in RegHandlers |-> IdleReg]

NextAuth ==
    \/ \E h \in RegHandlers, body \in RegBodies : RegisterDecode(h, body)
    \/ \E h \in RegHandlers : RegisterLock(h)
    \/ \E h \in RegHandlers : RegisterCheck(h)
    \/ \E h \in RegHandlers : RegisterInsert(h)

SpecAuth == InitAuth /\ [][NextAuth]_vars

-----------------------------------------------------------------------------
(* SpecKey: the key derivation applied to two queries *)

InitKey ==
    /\ items = << >>
    /\ now = 0
    /\ ttl = 0
    /\ call = [c \in Callers |-> IdleCall]
    /\ writes = << >>
    /\ ret = [op |-> "init"]
    /\ kq \in AllQueries \X AllQueries
    /\ kk = << >>
    /\ lazy = << >>
    /\ stopped = -1
    /\ mu = FreeMu
    /\ gor = << >>
    /\ heap = << >>
    /\ held = << >>
    /\ userStore = EmptyUserStore
    /\ reg = << >>

\* the proxy derives the cache keys of the two queries
DeriveKeys ==
    /\ kk = << >>
    /\ kk' = <<CacheKey(kq[1]), CacheKey(kq[2])>>
    /\ ret' = [op |-> "keys"]
    /\ UNCHANGED <<items, now, ttl, call, writes, kq, lazy, stopped>>
    /\ LockIdle /\ HeapIdle /\ AuthIdle

NextKey == DeriveKeys

SpecKey == InitKey /\ [][NextKey]_vars

-----------------------------------------------------------------------------
(* Properties of the store, checked under SpecStore *)

\* the history of the key of the Get that just returned
LastWrite == writes[ret.key]

\* C1: a Get never returns (v, true) for an entry whose expiresAt <= now at
\* the moment of the call, the boundary instant now = expiresAt included,
\* whether or not the cleanup has removed the entry
C1_NoExpiredEntryReturned ==
    (ret.op = "Get" /\ ret.found) =>
        /\ ret.key \in DOMAIN items
        /\ now < items[ret.key].expiration

\* C8: a Get(k) issued right after Set(k, v, ttl) with ttl > 0, no time
\* elapsed and no Set or Delete on k in between, returns (v, true), whatever
\* the store held for k before
C8_GetAfterSet ==
    (/\ ret.op = "Get"
     /\ ret.key \in DOMAIN writes
     /\ LastWrite.ttl > 0
     /\ LastWrite.at = now
     /\ ~LastWrite.deleted) =>
        /\ ret.found
        /\ ret.value = LastWrite.value

\* C8 witness: the Get follows a Set with ttl > 0 at the same instant
C8_Witness ==
    /\ ret.op = "Get"
    /\ ret.key \in DOMAIN writes
    /\ LastWrite.ttl > 0
    /\ LastWrite.at = now
    /\ ~LastWrite.deleted
    /\ ret.found

\* C9: once more than ttl has elapsed since the last Set(k, v, ttl), Get(k)
\* returns (nil, false), whether or not a cleanup pass ran in between
C9_GetAfterTtl ==
    (/\ ret.op = "Get"
     /\ ret.key \in DOMAIN writes
     /\ now - LastWrite.at > LastWrite.ttl) =>
        /\ ~ret.found
        /\ ret.value = Nil

\* C9 witness: a Get on an entry with a positive ttl that has run out and
\* that no cleanup pass and no Delete has removed
C9_Witness ==
    /\ ret.op = "Get"
    /\ ret.key \in DOMAIN writes
    /\ LastWrite.ttl > 0
    /\ now - LastWrite.at > LastWrite.ttl
    /\ ret.key \in DOMAIN items
    /\ ~ret.found

\* C10: after Set(k, v, ttl) with ttl <= 0 every Get(k), one at the instant
\* of the Set included, returns (nil, false)
C10_NonPositiveTtlIsExpired ==
    (/\ ret.op = "Get"
     /\ ret.key \in DOMAIN writes
     /\ LastWrite.ttl <= 0) =>
        /\ ~ret.found
        /\ ret.value = Nil

\* C11: a Get(k) that follows Delete(k) with no Set(k) in between returns
\* (nil, false), also when k held a live entry before the Delete
C11_GetAfterDelete ==
    [][(/\ ret'.op = "Get"
        /\ \/ ret.op = "Delete" /\ ret.key = ret'.key
           \/ ret'.key \in DOMAIN writes' /\ writes'[ret'.key].deleted) =>
           /\ ~ret'.found
           /\ ret'.value = Nil]_vars

\* C11 witness: a Get misses on a key whose entry was live when it was
\* deleted and would still be live
C11_Witness ==
    /\ ret.op = "Get"
    /\ ret.key \in DOMAIN writes
    /\ LastWrite.deleted
    /\ now < LastWrite.at + LastWrite.ttl
    /\ ~ret.found

\* C12: Delete(k) on a key that is absent leaves the whole entry map as it
\* was, so a second Delete(k) leaves the state of the first
C12_DeleteAbsentIsNoOp ==
    [][/\ (ret'.op = "Delete" /\ ret'.key \notin DOMAIN items) =>
              items' = items
       /\ (/\ ret.op = "Delete"
           /\ ret'.op = "Delete"
           /\ ret'.key = ret.key) => items' = items]_vars

\* C12 witness: a Delete of an absent key on a store that holds an entry
\* under another key
C12_Witness ==
    /\ ret.op = "Delete"
    /\ ~ret.had
    /\ DOMAIN items # {}

\* C13: a Get(k) on a key that no Set has ever written returns (nil, false),
\* whatever happened to other keys and however many cleanup passes ran
C13_NeverWrittenIsMiss ==
    (ret.op = "Get" /\ ret.key \notin DOMAIN writes) =>
        /\ ~ret.found
        /\ ret.value = Nil

\* C13 witness: a Get on a never written key while another key has a live
\* entry
C13_Witness ==
    /\ ret.op = "Get"
    /\ ret.key \notin DOMAIN writes
    /\ \E k \in DOMAIN items : GetResult(items, now, k).found

\* C14: after a Set the entry of the key holds the value of that Set and
\* expires at the instant of that Set plus its ttl, whatever entry the key
\* had before; a Set shortens a lifetime as well as it extends one
C14_LastWriteWins ==
    (ret.op = "Set") =>
        /\ ret.key \in DOMAIN items
        /\ items[ret.key] =
              [value |-> ret.value, expiration |-> now + ret.ttl]

\* C14 witness: a Set over an entry that would have expired later
C14_Witness ==
    /\ ret.op = "Set"
    /\ ret.prior = "expired later"
    /\ ret.ttl > 0
    /\ items[ret.key].expiration = now + ret.ttl

\* C20: every Get returns the same (value, found) on the store with its
\* cleanup passes as on the twin store on which no pass ever runs
C20_CleanupInvisible ==
    /\ \A k \in StoreKeys :
          GetResult(items, now, k) = GetResult(lazy, now, k)
    /\ (ret.op = "Get") =>
          [value |-> ret.value, found |-> ret.found] =
              GetResult(lazy, now, ret.key)

\* C20 witness: a Get on a key whose expired entry a cleanup pass has
\* removed and the twin store still holds
C20_Witness ==
    /\ ret.op = "Get"
    /\ ret.key \in DOMAIN lazy
    /\ ret.key \notin DOMAIN items
    /\ \E k \in DOMAIN items : GetResult(items, now, k).found

\* C19: once the stop signal is given the cleanup task stops within one
\* interval: at most the pass of the interval in which the signal came runs
\* after it, and no pass after that one
C19_CleanupStopsOnSignal == stopped <= 1

-----------------------------------------------------------------------------
(* Properties of the proxy, checked under Spec *)

\* the event that just happened is a step of a proxy call
ProxyEvent == ret.op \in {"return", "pending", "panic"}

\* the store key of the query of the proxy event that just happened
RetKey == CacheKey(ret.q)

\* C2: a Search(Q) that misses and whose upstream call answers R makes
\* exactly one upstream call, with Q, and returns R; a Search(Q) made while
\* less than the ttl has passed since the entry of Q was written returns the
\* stored result without an upstream call
C2_CacheAside ==
    /\ (/\ ret.op = "return"
        /\ ret.q.method = "AddressSearch"
        /\ ~ret.hit
        /\ ret.up.err = NoErr) =>
           /\ ret.ups = 1
           /\ ret.up.q = ret.q
           /\ ret.result = ret.up.res
           /\ ret.err = NoErr
    /\ (/\ ProxyEvent
        /\ ret.step = "Get"
        /\ ret.q.method = "AddressSearch"
        /\ RetKey \in DOMAIN writes
        /\ now - writes[RetKey].at < writes[RetKey].ttl) =>
           /\ ret.op = "return"
           /\ ret.hit
           /\ ret.result = writes[RetKey].value
           /\ ret.err = NoErr
           /\ ret.ups = 0

\* C2 witness: a Search answered from the store at a later instant than the
\* one at which the entry was written, inside the ttl window
C2_Witness ==
    /\ ret.op = "return"
    /\ ret.q.method = "AddressSearch"
    /\ ret.hit
    /\ RetKey \in DOMAIN writes
    /\ writes[RetKey].at < now
    /\ now - writes[RetKey].at < writes[RetKey].ttl
    /\ ret.result = Addresses(<<"Moscow">>)
    /\ ret.ups = 0

\* C3: no step of a proxy call other than the Set after an upstream success
\* changes the store, and a call whose upstream call fails has made no Set,
\* leaves the entries as they were, and leaves a store in which the lookup
\* of the same query misses again: the next call for that query goes on to
\* the upstream service
C3_FailureIsolation ==
    [][/\ (ProxyEvent' /\ ret'.step # "Set") =>
              /\ items' = items
              /\ writes' = writes
       /\ (ret'.op = "return" /\ ret'.err # NoErr) =>
              /\ ret'.sets = 0
              /\ items' = items
              /\ ~GetResult(items', now', CacheKey(ret'.q)).found
       /\ (/\ ret.op = "return" /\ ret.err # NoErr
           /\ ProxyEvent' /\ ret'.step = "Get" /\ ret'.q = ret.q) =>
              ret' = Pending(ret.q, "Get")]_vars

\* C3 witness: an upstream failure for a query whose key has an entry in
\* the map, left there by an earlier call
C3_Witness ==
    /\ ret.op = "return"
    /\ ret.err # NoErr
    /\ RetKey \in DOMAIN items

\* C4: when the store misses and the upstream call fails with error e, the
\* proxy returns the nil result together with exactly e
C4_ErrorVerbatim ==
    (ret.op = "return" /\ ret.up.err # NoErr) =>
        /\ ~ret.hit
        /\ ret.result = NilAddresses
        /\ ret.err = ret.up.err

\* C4 witness: a reverse lookup returns the error of its upstream call
C4_Witness ==
    /\ ret.op = "return"
    /\ ret.q.method = "GeoCode"
    /\ ret.up.err = "timeout"
    /\ ret.err = "timeout"

\* C5: every proxy call makes exactly one Get; on a hit it returns the
\* cached value with a nil error, no upstream call and no Set; on a miss it
\* makes exactly one upstream call, also when that call fails
C5_OneGetOneUpstream ==
    (ret.op = "return") =>
        /\ ret.gets = 1
        /\ ret.hit =>
              /\ RetKey \in DOMAIN items
              /\ ret.result = items[RetKey].value
              /\ ret.err = NoErr
              /\ ret.ups = 0
              /\ ret.sets = 0
        /\ ~ret.hit => ret.ups = 1

\* C5 witness: a reverse lookup served from the store
C5_Witness ==
    /\ ret.op = "return"
    /\ ret.q.method = "GeoCode"
    /\ ret.hit
    /\ ret.gets = 1

\* C6: after a miss and an upstream success with result R the proxy has
\* called Set exactly once, with the key of the query, R and the ttl of the
\* proxy, and returns R with a nil error; every entry ever written carries
\* that same ttl
C6_PopulateOnMiss ==
    /\ (ret.op = "return" /\ ~ret.hit /\ ret.err = NoErr) =>
           /\ ret.sets = 1
           /\ RetKey \in DOMAIN writes
           /\ writes[RetKey] = [value |-> ret.up.res, ttl |-> ttl,
                                at |-> now, deleted |-> FALSE]
           /\ items[RetKey] = [value |-> ret.up.res,
                               expiration |-> now + ttl]
           /\ ret.result = ret.up.res
    /\ \A k \in DOMAIN writes : writes[k].ttl = ttl

\* C6 witness: a search has stored and returned a non-empty upstream result
\* under a positive ttl, at a later instant than the start of the program
C6_Witness ==
    /\ ret.op = "return"
    /\ ret.step = "Set"
    /\ ret.q.method = "AddressSearch"
    /\ ttl > 0
    /\ now > 0
    /\ ret.result = Addresses(<<"Moscow">>)

-----------------------------------------------------------------------------
(* Properties of the key derivation, checked under SpecKey *)

\* C7: two distinct queries are derived to different store keys, and the
\* same query is derived to the same key, over arbitrary strings, those
\* that contain ':' included
C7_KeysCollisionFree ==
    (Len(kk) = 2) =>
        /\ kq[1] # kq[2] => kk[1] # kk[2]
        /\ kq[1] = kq[2] => kk[1] = kk[2]

-----------------------------------------------------------------------------
(* Properties of concurrent proxy calls, checked under SpecConc *)

\* C18: concurrent calls for the same key are not merged: every call that
\* missed makes its own single upstream call and its own Set, a call never
\* makes more than one upstream call, and the entry of a key is always the
\* one of the Set that ran last on it, with the value and expiry of that Set
C18_NoSingleFlight ==
    /\ \A c \in DOMAIN call :
          /\ call[c].ups <= 1
          /\ call[c].pc = "store" => (call[c].ups = 1 /\ call[c].sets = 0)
    /\ (ret.op = "return") =>
          /\ ret.ups <= 1
          /\ ret.step = "Set" =>
                /\ ret.ups = 1
                /\ ret.sets = 1
                /\ items[RetKey] =
                      [value |-> ret.result, expiration |-> now + ttl]
    /\ \A k \in DOMAIN items :
          /\ k \in DOMAIN writes
          /\ items[k] = [value |-> writes[k].value,
                         expiration |-> writes[k].at + writes[k].ttl]

\* C18 witness: a caller has just stored its result for a query while the
\* other caller, which missed on the same query, holds a different upstream
\* result that it has yet to store
C18_Witness ==
    /\ ret.op = "return"
    /\ ret.step = "Set"
    /\ \E c \in DOMAIN call :
          /\ call[c].pc = "store"
          /\ call[c].q = ret.q
          /\ call[c].data # ret.result

\* a goroutine is inside a critical section of c.mu, working on c.items
Accessing(g) == gor[g].pc = "in"

\* a goroutine is inside Set, Delete or a cleanup pass, writing c.items
Modifying(g) == Accessing(g) /\ gor[g].op \in {"Set", "Delete", "cleanup"}

\* C15: no goroutine modifies the entry map (Set, Delete or a cleanup
\* pass) while any other goroutine reads or modifies it; the write lock is
\* held by exactly the goroutine that modifies, and the read lock by
\* exactly the goroutines inside Get.
C15_ConcurrencySafety ==
    /\ \A g \in DOMAIN gor, h \in DOMAIN gor :
          g # h /\ Modifying(g) => ~Accessing(h)
    /\ \A g \in DOMAIN gor :
          /\ Modifying(g) <=> (mu.locked /\ mu.writer = g)
          /\ (Accessing(g) /\ gor[g].op = "Get") <=> g \in mu.readers

\* C15 witness: two goroutines read the same key at the same time while
\* the cleanup pass waits for them inside Lock
C15_Witness ==
    /\ \A g \in LockClients :
          Accessing(g) /\ gor[g].op = "Get" /\ gor[g].key = "testKey"
    /\ gor[Cleaner].pc = "wait"
    /\ "testKey" \in DOMAIN items

\* C16: under fair scheduling every started Get, Set, Delete and cleanup
\* pass eventually returns, after it got the lock, with the lock released.
C16_NoDeadlock ==
    \A g \in LockClients \cup {Cleaner} :
        (gor[g].pc # "idle") ~>
            (gor[g].pc = "idle" /\ mu.writer # g /\ g \notin mu.readers)

\* C16 witness: a cleanup pass is ranging over the map with the lock held
\* while one client waits to read and the other waits to write
C16_Witness ==
    /\ Accessing(Cleaner)
    /\ gor[Cleaner].todo # {}
    /\ \E g \in LockClients, h \in LockClients :
          /\ gor[g].pc = "start" /\ gor[g].op = "Get"
          /\ gor[h].pc = "start" /\ gor[h].op \in {"Set", "Delete"}

\* the steps a goroutine of the store takes once it has called
OwnStep(g) ==
    \/ RLock(g)
    \/ LockAnnounce(g)
    \/ LockAcquire(g)
    \/ GetDone(g)
    \/ SetDone(g)
    \/ DeleteDone(g)
    \/ g = Cleaner /\ \E key \in LockKeys : CleanupVisit(key)
    \/ g = Cleaner /\ CleanupDone

\* C17: a proxy call that is blocked in its upstream call is inside no
\* call of the store and holds neither the read nor the write lock, and
\* whenever another goroutine is inside a call of the store, a goroutine
\* other than the blocked caller can take its next step.
C17_UpstreamOutsideLock ==
    \A c \in DOMAIN call :
        call[c].pc = "upstream" =>
            /\ gor[c].pc = "idle"
            /\ mu.writer # c
            /\ c \notin mu.readers
            /\ \A g \in DOMAIN gor \ {c} :
                  gor[g].pc # "idle" =>
                      \E h \in DOMAIN gor \ {c} : ENABLED OwnStep(h)

\* C17 witness: while the caller is blocked in upstream, a client writes
\* the key of the blocked call with the write lock held and another client
\* waits for the lock
C17_Witness ==
    \E c \in DOMAIN call :
        /\ call[c].pc = "upstream"
        /\ \E g \in LockClients, h \in LockClients :
              /\ Modifying(g)
              /\ gor[g].op = "Set"
              /\ gor[g].key = CacheKey(call[c].q)
              /\ gor[h].pc = "start"

\* C25: no Get call changes the entry map, whether it hits, misses on an
\* absent key or misses on an expired entry; the expired entry it found is
\* still in the map when it has returned.
C25_GetIsReadOnly ==
    [][ret'.op = "Get" => items' = items]_vars

\* C25 witness: Get has just missed on an entry that is expired and is
\* still in the map
C25_Witness ==
    /\ ret.op = "Get"
    /\ ~ret.found
    /\ ret.key \in DOMAIN items
    /\ After(now, items[ret.key].expiration)

\* C27: when a cleanup pass finishes, the map holds no entry whose
\* expiration was earlier than the instant at which the pass started.
C27_PassRemovesExpired ==
    [][ret'.op = "cleanup" =>
          \A k \in DOMAIN items' : ~(items'[k].expiration < now)]_vars

\* C27 witness: a pass has just removed the two entries of the map
C27_Witness ==
    /\ ret.op = "cleanup"
    /\ ret.cleaned = Cardinality(StoreKeys)
    /\ \A k \in StoreKeys : k \in DOMAIN writes /\ ~writes[k].deleted

\* the entry of a key as Get sees it at the current instant: a miss
Dead(its, t, key) == ~GetResult(its, t, key).found

\* C28: a cleanup pass removes an entry only at an instant at which Get
\* misses on it, and leaves every entry that is not expired at the instant
\* it comes to it as it is.
C28_SweepRemovesOnlyDead ==
    [][(gor[Cleaner].pc = "in" /\ gor'[Cleaner].pc = "in") =>
          \A k \in DOMAIN items :
              \/ k \in DOMAIN items' /\ items'[k] = items[k]
              \/ Dead(items, now, k)]_vars

\* C28 witness: the pass has come to an entry that expires at this very
\* instant and has kept it, and has removed the other entry
C28_Witness ==
    /\ gor[Cleaner].pc = "in"
    /\ gor[Cleaner].todo = {}
    /\ \E k \in DOMAIN items : items[k].expiration = now
    /\ DOMAIN items # LockKeys

\* C30: a key on which Get misses stays a miss under every step but a Set
\* of that key: Delete, cleanup, the clock and operations on other keys
\* never make it hit again; and Get answers what the map says.
C30_MissUntilNextSet ==
    [][/\ ret'.op = "Get" =>
             ret'.found = ~Dead(items', now', ret'.key)
       /\ \A k \in StoreKeys :
             (Dead(items, now, k) /\ ~(ret'.op = "Set" /\ ret'.key = k))
                 => Dead(items', now', k)]_vars

\* C30 witness: Get has just missed on a key that was written, has expired
\* and was then deleted, after a Set of the other key
C30_Witness ==
    /\ ret.op = "Get"
    /\ ~ret.found
    /\ ret.key \in DOMAIN writes
    /\ writes[ret.key].deleted
    /\ After(now, writes[ret.key].at + writes[ret.key].ttl)
    /\ \E k \in DOMAIN items : k # ret.key

\* the requests for an e-mail that RegisterHandler has answered with 201
\* or 409, and those among them answered with 201
RegAnswered(email) ==
    {h \in DOMAIN reg :
        /\ reg[h].pc = "done"
        /\ reg[h].email = email
        /\ reg[h].status \in {StatusCreated, StatusConflict}}
RegCreated(email) ==
    {h \in RegAnswered(email) : reg[h].status = StatusCreated}

C22_ReportsOncePerStep ==
    ret.op = "return" =>
        LET got == [method |-> ret.q.method, hit |-> ret.step = "Get"]
            populated == [method |-> ret.q.method \o "_Set", hit |-> TRUE]
        IN  /\ ret.step \in {"Get", "Upstream"} => ret.reports = <<got>>
            /\ ret.step = "Set" => ret.reports = <<got, populated>>
            /\ ret.step = "Set" <=> (~ret.hit /\ ret.err = NoErr)
            /\ ret.step = "Upstream" <=> ret.err # NoErr
            /\ ret.step = "Get" <=> ret.hit

\* C22 witness: a reverse lookup has missed, got its answer from upstream
\* and stored it, with its two reports made
C22_Witness ==
    /\ ret.op = "return"
    /\ ret.q.method = "GeoCode"
    /\ ret.step = "Set"
    /\ Len(ret.reports) = 2
    /\ ret.reports[2].method = "GeoCode_Set"

\* C23: the entry of a search is kept under "search:" followed by the
\* query as it came, the upstream service is asked with the same string,
\* and a query is only ever answered from the entry of that very string:
\* queries that differ in case or in white space never share an entry.
C23_SearchKeyVerbatim ==
    /\ DOMAIN items \subseteq {"search:" \o input : input \in SearchInputs}
    /\ \A input \in SearchInputs :
          "search:" \o input \in DOMAIN items =>
              items["search:" \o input].value = Addresses(<<input>>)
    /\ ret.op = "return" =>
          /\ ret.ups > 0 => ret.up.q = ret.q
          /\ ret.step \in {"Get", "Set"} =>
                ret.result = Addresses(<<ret.q.a>>)
          /\ ret.step = "Set" => "search:" \o ret.q.a \in DOMAIN items

\* C23 witness: the three queries have an entry each, and the query in
\* capitals has just been answered from its own
C23_Witness ==
    /\ \A input \in SearchInputs :
          /\ "search:" \o input \in DOMAIN items
          /\ ~After(now, items["search:" \o input].expiration)
    /\ ret.op = "return"
    /\ ret.step = "Get"
    /\ ret.q = SearchQuery("Query")

\* C21: the value a hit returns reads as it was when it was stored,
\* whatever the callers did with the values they got before, and no two
\* callers, and no caller and the store, hold a pointer to the same
\* struct.
C21_ValuesOwnedByEntry ==
    /\ (ret.op = "return" /\ ret.step = "Get") =>
          \A p \in Pointers(ret.result) : heap[p].City = heap[p].stored
    /\ \A c \in DOMAIN held :
          /\ \A k \in DOMAIN items :
                Pointers(held[c]) \cap Pointers(items[k].value) = {}
          /\ \A b \in DOMAIN held \ {c} :
                Pointers(held[c]) \cap Pointers(held[b]) = {}

\* the entries the running cleanup pass has still to come to and will
\* remove: each removal is one mutation of the map
RemovalsAhead ==
    {k \in gor[Cleaner].todo :
        k \in DOMAIN items /\ After(now, items[k].expiration)}

\* C26: a Get or Set that has arrived while a cleanup pass is in progress
\* waits for at most one removal of an entry before it can proceed: no
\* such call waits for the lock while the pass, which holds the lock to
\* its end, has more than one removal ahead of it.
C26_SweepBlocksOneRemoval ==
    \A g \in LockClients :
        (/\ gor[g].pc = "start"
         /\ gor[g].op \in {"Get", "Set"}
         /\ Accessing(Cleaner))
            => Cardinality(RemovalsAhead) <= 1

\* C29: an entry whose expiration has come is eventually out of the map,
\* unless a Set puts a live entry in its place, whether or not any client
\* calls again.  The clock of the model stops at MaxTime, so the entry is
\* one whose expiration the clock can still pass.
C29_ExpiredEventuallyReclaimed ==
    \A k \in LockKeys :
        (/\ k \in DOMAIN items
         /\ items[k].expiration <= now
         /\ items[k].expiration < MaxTime)
            ~> (k \notin DOMAIN items \/ items[k].expiration > now)

\* C29 witness: the two entries have expired, no goroutine is inside a
\* call of the store and the cleanup goroutine waits for its ticker
C29_Witness ==
    /\ \A k \in LockKeys :
          k \in DOMAIN items /\ After(now, items[k].expiration)
    /\ \A g \in DOMAIN gor : gor[g].pc = "idle"
    /\ mu = FreeMu

\* C32: Set and Delete of a key change the entry of that key only: every
\* other key that was in the map is still there with its value and its
\* expiration, and no other key has come into the map.
C32_OtherKeysUntouched ==
    [][ret'.op \in {"Set", "Delete"} =>
          /\ DOMAIN items' \ {ret'.key} = DOMAIN items \ {ret'.key}
          /\ \A k \in DOMAIN items \ {ret'.key} : items'[k] = items[k]]_vars

\* C32 witness: Set has just overwritten the entry of one key while the
\* other key has an entry that was written with another value and is
\* expired already
C32_Witness ==
    /\ ret.op = "Set"
    /\ ret.prior # "absent"
    /\ \E k \in DOMAIN items :
          /\ k # ret.key
          /\ items[k].value # ret.value
          /\ After(now, items[k].expiration)

\* C31: every result a proxy call returns, answered from the store or
\* fetched, is one the upstream service returned without error for the very
\* query of the call, and one answered from the store was written there no
\* longer than the ttl of the proxy before the Get.
C31_ResultProvenance ==
    (ret.op = "return" /\ ret.step \in {"Get", "Set"}) =>
        /\ ret.result = AnswerOf(ret.q)
        /\ ret.hit =>
              /\ RetKey \in DOMAIN writes
              /\ writes[RetKey].ttl = ttl
              /\ now - writes[RetKey].at <= ttl

\* C33: a Search(Q) made when more than the ttl has passed since the entry
\* of Q was written misses and goes on to the upstream service; a Search
\* that stores has called the upstream service exactly once, with Q, and
\* leaves under the key of Q the upstream result with the expiration at the
\* instant of the Set plus the ttl.
C33_ExpiredIsRefetched ==
    [][
        /\ (/\ ret'.op \in {"return", "pending", "panic"}
            /\ ret'.step = "Get"
            /\ ret'.q.method = "AddressSearch"
            /\ CacheKey(ret'.q) \in DOMAIN writes
            /\ now - writes[CacheKey(ret'.q)].at > ttl) =>
               /\ ret'.op = "pending"
               /\ \E c \in DOMAIN call :
                     /\ call[c].pc = "idle"
                     /\ call'[c].pc = "upstream"
                     /\ call'[c].q = ret'.q
                     /\ call'[c].ups = 0
               /\ items' = items
        /\ (/\ ret'.op = "return"
            /\ ret'.step = "Set"
            /\ ret'.q.method = "AddressSearch") =>
               /\ ret'.ups = 1
               /\ ret'.up.q = ret'.q
               /\ ret'.up.err = NoErr
               /\ ret'.result = ret'.up.res
               /\ CacheKey(ret'.q) \in DOMAIN items'
               /\ items'[CacheKey(ret'.q)] =
                     [value |-> ret'.up.res, expiration |-> now + ttl]
               /\ now' = now
    ]_vars

\* C33 witness: a Search has just missed on an entry that is still in the
\* map, written under a positive ttl more than the ttl ago
C33_Witness ==
    /\ ret.op = "pending"
    /\ ret.step = "Get"
    /\ ret.q.method = "AddressSearch"
    /\ ttl > 0
    /\ RetKey \in DOMAIN items
    /\ RetKey \in DOMAIN writes
    /\ now - writes[RetKey].at > ttl

\* C34: an upstream answer without addresses and without error is stored
\* under the key of the query with the ttl of the proxy, and a call for
\* that query made while less than the ttl has passed since is answered
\* from the store with the empty result, without an upstream call.
C34_EmptyResultCached ==
    /\ (/\ ret.op = "return"
        /\ ret.ups = 1
        /\ ret.up.err = NoErr
        /\ ret.up.res = NilAddresses) =>
           /\ ret.step = "Set"
           /\ ret.sets = 1
           /\ ret.result = NilAddresses
           /\ ret.err = NoErr
           /\ RetKey \in DOMAIN items
           /\ items[RetKey] = [value |-> NilAddresses,
                               expiration |-> now + ttl]
    /\ (/\ ProxyEvent
        /\ ret.step = "Get"
        /\ RetKey \in DOMAIN writes
        /\ writes[RetKey].value = NilAddresses
        /\ now - writes[RetKey].at < ttl) =>
           /\ ret.op = "return"
           /\ ret.hit
           /\ ret.result = NilAddresses
           /\ ret.err = NoErr
           /\ ret.ups = 0
           /\ ret.sets = 0

\* C34 witness: a call answered from the store with the empty result, at a
\* later instant than the one at which the empty result was stored
C34_Witness ==
    /\ ret.op = "return"
    /\ ret.hit
    /\ ret.result = NilAddresses
    /\ ret.ups = 0
    /\ RetKey \in DOMAIN writes
    /\ writes[RetKey].value = NilAddresses
    /\ writes[RetKey].at < now

\* C35: no proxy call panics on the conversion of a cached value: every
\* entry of the store is under a key derived from a request, and its value
\* is the address list the miss path of the proxy stored there last.
C35_AssertionNeverFails ==
    /\ ret.op # "panic"
    /\ \A k \in DOMAIN items :
          /\ k \in {CacheKey(q) : q \in Requests}
          /\ items[k].value.tag = "addrs"
          /\ k \in DOMAIN writes
          /\ ~writes[k].deleted
          /\ items[k].value = writes[k].value
    /\ (ret.op = "return" /\ ret.hit) => ret.result.tag = "addrs"

\* C35 witness: a reverse lookup has just been answered from the store, the
\* cached value converted, while the store holds an entry for each key
C35_Witness ==
    /\ ret.op = "return"
    /\ ret.hit
    /\ ret.q.method = "GeoCode"
    /\ ret.result.tag = "addrs"
    /\ DOMAIN items = {CacheKey(q) : q \in Requests}

====
